---- MODULE Spec2Model ----
(***************************************************************************)
(* The evaluation store of the hackathon judging platform: the four record *)
(* collections kept in localStorage behind an in-memory cache              *)
(* (services/dbService.ts, in its two versions), the change notification   *)
(* and the subscriber's refresh (hooks/useDataRefresh.ts); and the          *)
(* server's projects, evaluations and leaderboard (Backend/server.js on    *)
(* the PostgreSQL schema).                                                 *)
(*                                                                         *)
(* Every repository operation runs readDB, its mutation and writeDB        *)
(* synchronously, before its only await (simulateApi), so one operation    *)
(* is one atomic step.  A dispatched event runs its listeners              *)
(* synchronously, so the listener's first part (up to the await in         *)
(* refreshAllData) belongs to the step that dispatches.                    *)
(***************************************************************************)
EXTENDS Integers, Sequences, FiniteSets, TLC

VARIABLES
    impl,               \* which version of dbService runs: "ts" | "p2"
    storageFull,        \* localStorage.setItem throws (quota exceeded)
    localStorage,       \* the item under DB_KEY: <<>> (none) or <<text>>
    dbCache,            \* <<>> (null) or <<DBState>>
    cacheTimestamp,
    now,                \* Date.now(), in milliseconds since the session began
    refreshInProgress,  \* useDataRefresh: refreshInProgress.current
    data,               \* the pending getAllData() of the refresh: <<>> or <<r>>
    ui,                 \* what the callbacks set: projects, judges, criteria, scores
    last,               \* the last repository operation and its outcome
    nOps,               \* repository operations run so far
    pg,                 \* the server's database: tables projects, evaluations
    inflight,           \* POST /api/evaluations handlers at an await
    http,               \* the last request the server answered, and its answer
    nReq                \* requests the server has received so far

storeVars == <<impl, storageFull, localStorage, dbCache, cacheTimestamp, now,
               refreshInProgress, data, ui, last, nOps>>

serverVars == <<pg, inflight, http, nReq>>

vars == <<impl, storageFull, localStorage, dbCache, cacheTimestamp, now,
          refreshInProgress, data, ui, last, nOps, pg, inflight, http, nReq>>

----------------------------------------------------------------------------
(* Bounds of the model *)

MaxOps == 2         \* repository operations in one behaviour
MaxTicks == 2       \* clock ticks in one behaviour
MaxBatch == 2       \* projects in one createProjects call

(* Program constants *)

CACHE_DURATION == 100
SIMULATED_DELAY == 50

\* One step of the model's clock.  Two calls made within the same tick read
\* the same Date.now().
TickMs == SIMULATED_DELAY

----------------------------------------------------------------------------
(* Values *)

TrackA == "Onchain Finance & RWA"
TrackB == "AI & DePIN"
Tracks == {TrackA, TrackB}

\* A JavaScript number that is a rating, the number NaN, and JSON's null.
Num(n) == [kind |-> "number", n |-> n]
NaN == [kind |-> "NaN", n |-> 0]
JsNull == [kind |-> "null", n |-> 0]

\* The value of a field the caller did not pass.
Undefined == [kind |-> "undefined", n |-> 0]

\* JavaScript's a < b and a > b on these values: undefined converts to NaN and
\* every comparison with NaN is false; null converts to 0.
IsNaN(a) == a.kind \in {"NaN", "undefined"}
ToNumber(a) == IF a.kind = "null" THEN 0 ELSE a.n
JsLt(a, b) == ~IsNaN(a) /\ ~IsNaN(b) /\ ToNumber(a) < ToNumber(b)
JsGt(a, b) == JsLt(b, a)

\* Identifiers: <<prefix, timestamp, index>>, as in `p_${Date.now()}_${index}`
\* and `j_${Date.now()}` (index 0).  Records of earlier sessions carry
\* negative timestamps.
Id(prefix, t, i) == <<prefix, t, i>>

Project(id, track) == [id |-> id, track |-> track]
Judge(id, tracks) == [id |-> id, tracks |-> tracks]
Criterion(id, weight) == [id |-> id, weight |-> weight]

\* The identity of a Score is determined by its (project, judge, criterion)
\* triple.
ScoreId(p, j, c) == <<"s", p, j, c>>
Score(p, j, c, r) ==
    [id |-> ScoreId(p, j, c), projectId |-> p, judgeId |-> j,
     criterionId |-> c, rating |-> r]

\* An object in the shape of DBState.  A parsed object may lack some of the
\* four keys (missing: the value is undefined) or hold under a key a value
\* that is no array, such as a string (garbled: truthy, without push, filter,
\* map or findIndex); the model keeps an empty array in the place of both.
DBState(ps, js, cs, ss) ==
    [projects |-> ps, judges |-> js, criteria |-> cs, scores |-> ss,
     missing |-> {}, garbled |-> {}]

EmptyDB == DBState(<<>>, <<>>, <<>>, <<>>)

\* What JSON.parse returns for the text `null`: no object at all, so that
\* reading any of its keys throws a TypeError.
NullDB == [EmptyDB EXCEPT
              !.missing = {"object", "projects", "judges", "criteria", "scores"}]
IsNull(db) == "object" \in db.missing

P1 == Id("p", -2, 0)
P2 == Id("p", -2, 1)
J1 == Id("j", -2, 0)
J2 == Id("j", -1, 0)
C1 == Id("c", -2, 0)
GhostP == Id("p", -9, 0)
GhostJ == Id("j", -9, 0)
GhostC == Id("c", -9, 0)

\* The data of ../data/mockData, and what an earlier session left in
\* localStorage.
MOCK_DB ==
    DBState(<<Project(P1, TrackA), Project(P2, TrackB)>>,
            <<Judge(J1, {TrackA}), Judge(J2, {TrackB})>>,
            <<Criterion(C1, 1)>>,
            <<Score(P1, J1, C1, Num(8))>>)

----------------------------------------------------------------------------
(* Arrays *)

\* Array.prototype.findIndex(x => x.id === id): the first index (from 1) of
\* an element with that id, or -1.
findIndex(s, id) ==
    IF \E i \in 1..Len(s) : s[i].id = id
    THEN CHOOSE i \in 1..Len(s) :
            s[i].id = id /\ \A k \in 1..(i - 1) : s[k].id # id
    ELSE -1

\* Array.prototype.find(x => x.id === id), when there is one.
First(s, id) == s[findIndex(s, id)]

Range(s) == {s[i] : i \in 1..Len(s)}
Ids(s) == {s[i].id : i \in 1..Len(s)}

----------------------------------------------------------------------------
(* JSON *)

\* JSON.stringify writes NaN as null; everything else of a DBState survives.
JsonRating(r) == IF r.kind = "NaN" THEN JsNull ELSE r
JsonScore(s) == [s EXCEPT !.rating = JsonRating(s.rating)]

stringify(db) ==
    [db EXCEPT !.scores = [i \in 1..Len(@) |-> JsonScore(@[i])]]

\* A text that is no JSON at all.
Garbage == [garbage |-> TRUE]

\* JSON.parse throws on a text that is not JSON, and otherwise returns the
\* object that was written.
Parses(text) == text # Garbage
parse(text) == text

----------------------------------------------------------------------------
(* readDB and writeDB.  Both work on the module's storage: ls is the item   *)
(* in localStorage, c is dbCache and t is cacheTimestamp.                   *)

Storage(ls, c, t) == [ls |-> ls, c |-> c, t |-> t]

\* The result of readDB: the object returned, the storage afterwards, whether
\* the returned object is the one dbCache holds (the caller mutates it in
\* place), and whether dbCache was given a new object.
ReadResult(db, st, cached, fresh) ==
    [db |-> db, st |-> st, cached |-> cached, fresh |-> fresh]

\* The result of writeDB: the storage afterwards, whether setItem succeeded,
\* whether the call threw, whether the event was dispatched.
WriteResult(st, ok, threw, dispatched) ==
    [st |-> st, ok |-> ok, threw |-> threw, dispatched |-> dispatched]

\* services/dbService.ts
writeDB_ts(st, db) ==
    IF storageFull
    THEN WriteResult(st, FALSE, FALSE, FALSE)
    ELSE WriteResult(Storage(<<stringify(db)>>, <<db>>, st.t), TRUE, FALSE, FALSE)

\* (mutants of writeDB: the item is not written; the event is not dispatched)
writeDB_p2_NoSetItem(st, db) ==
    WriteResult(Storage(st.ls, <<db>>, now), TRUE, FALSE, TRUE)

writeDB_p2_Silent(st, db) ==
    WriteResult(Storage(<<stringify(db)>>, <<db>>, now), TRUE, FALSE, FALSE)

\* the other version of dbService.ts
writeDB_p2(st, db) ==
    IF storageFull
    THEN WriteResult(st, FALSE, TRUE, FALSE)
    ELSE WriteResult(Storage(<<stringify(db)>>, <<db>>, now), TRUE, FALSE, TRUE)

writeDB(st, db) == IF impl = "ts" THEN writeDB_ts(st, db) ELSE writeDB_p2(st, db)

\* `db.projects && db.judges && db.criteria && db.scores`
ValidShape(db) == db.missing = {}

readDB_ts(st) ==
    IF st.c # <<>>
    THEN ReadResult(st.c[1], st, TRUE, FALSE)
    ELSE IF st.ls # <<>> /\ Parses(st.ls[1]) /\ ValidShape(parse(st.ls[1]))
         THEN ReadResult(parse(st.ls[1]),
                         Storage(st.ls, <<parse(st.ls[1])>>, st.t), TRUE, TRUE)
         ELSE LET w == writeDB_ts(st, MOCK_DB)
              IN  ReadResult(MOCK_DB, w.st, w.ok, w.ok)

readDB_p2(st) ==
    IF st.c # <<>> /\ (now - st.t) < CACHE_DURATION
    THEN ReadResult(st.c[1], st, TRUE, FALSE)
    ELSE IF st.ls # <<>> /\ ~Parses(st.ls[1])
         THEN \* catch: the timestamp is not set
              ReadResult(EmptyDB, Storage(st.ls, <<EmptyDB>>, st.t), TRUE, TRUE)
         ELSE LET db == IF st.ls # <<>> THEN parse(st.ls[1]) ELSE EmptyDB
              IN  IF IsNull(db)
                  THEN \* dbCache = null, and null is returned
                       ReadResult(db, Storage(st.ls, <<>>, now), FALSE, TRUE)
                  ELSE ReadResult(db, Storage(st.ls, <<db>>, now), TRUE, TRUE)

readDB(st) == IF impl = "ts" THEN readDB_ts(st) ELSE readDB_p2(st)

Here == Storage(localStorage, dbCache, cacheTimestamp)

\* What getAllData() resolves to when called now.
ReadView == readDB(Here).db

----------------------------------------------------------------------------
(* The mutation each repository operation makes on the object readDB        *)
(* returned.                                                                *)

\* createProjects.  dbService.ts mints `p_${Date.now()}_${index}`; the other
\* version pushes the projects as the caller made them.
WithIds(newProjects) ==
    [i \in 1..Len(newProjects) |->
        [newProjects[i] EXCEPT !.id = Id("p", now, i - 1)]]

createProjectsDb(db, newProjects) ==
    [db EXCEPT !.projects =
        @ \o (IF impl = "ts" THEN WithIds(newProjects) ELSE newProjects)]

\* update*: dbService.ts assigns at findIndex's index; the other version maps.
ReplaceAt(s, x) ==
    LET index == findIndex(s, x.id)
    IN  IF index # -1 THEN [s EXCEPT ![index] = x] ELSE s

ReplaceAll(s, x) ==
    [i \in 1..Len(s) |-> IF s[i].id = x.id THEN x ELSE s[i]]

Without(s, id) ==
    LET Other(y) == y.id # id
    IN  SelectSeq(s, Other)

\* (mutant of the updates: the record is taken out and pushed at the end)
Replace_MoveToEnd(s, x) == Append(Without(s, x.id), x)

Replace(s, x) == IF impl = "ts" THEN ReplaceAt(s, x) ELSE ReplaceAll(s, x)

updateProjectDb(db, x) == [db EXCEPT !.projects = Replace(@, x)]
updateJudgeDb(db, x) == [db EXCEPT !.judges = Replace(@, x)]
updateCriterionDb(db, x) == [db EXCEPT !.criteria = Replace(@, x)]

\* (mutants of the deletes: no cascade; a cascade where there is none)
deleteProjectDb_NoCascade(db, projectId) ==
    [db EXCEPT !.projects = Without(@, projectId)]

deleteJudgeDb_NoCascade(db, judgeId) ==
    [db EXCEPT !.judges = Without(@, judgeId)]

deleteCriterionDb_Cascade(db, criterionId) ==
    LET NotOn(s) == s.criterionId # criterionId
    IN  [db EXCEPT !.criteria = Without(@, criterionId),
                   !.scores = SelectSeq(@, NotOn)]

\* (mutant of deleteProject: every score goes)
deleteProjectDb_AllScores(db, projectId) ==
    [db EXCEPT !.projects = Without(@, projectId), !.scores = <<>>]

deleteProjectDb(db, projectId) ==
    LET NotOf(s) == s.projectId # projectId
    IN  [db EXCEPT !.projects = Without(@, projectId),
                   !.scores = SelectSeq(@, NotOf)]

deleteJudgeDb(db, judgeId) ==
    LET NotBy(s) == s.judgeId # judgeId
    IN  [db EXCEPT !.judges = Without(@, judgeId),
                   !.scores = SelectSeq(@, NotBy)]

deleteCriterionDb(db, criterionId) ==
    [db EXCEPT !.criteria = Without(@, criterionId)]

createJudgeDb(db, newJudgeData) ==
    [db EXCEPT !.judges = Append(@, Judge(Id("j", now, 0), newJudgeData.tracks))]

createCriterionDb(db, newCriterionData) ==
    [db EXCEPT !.criteria =
        Append(@, Criterion(Id("c", now, 0), newCriterionData.weight))]

\* (mutant of the upsert: it always appends)
createOrUpdateScoreDb_Push(db, score) ==
    [db EXCEPT !.scores = Append(@, score)]

createOrUpdateScoreDb(db, score) ==
    LET index == findIndex(db.scores, score.id)
    IN  IF index > -1
        THEN [db EXCEPT !.scores[index] = score]
        ELSE [db EXCEPT !.scores = Append(@, score)]

deleteScoreDb(db, scoreId) == [db EXCEPT !.scores = Without(@, scoreId)]

\* update* of dbService.ts writes only when the id was found.
Found(s, id) == impl # "ts" \/ id \in Ids(s)

\* The collections an operation calls push, findIndex, map or filter on, in
\* the order of its statements.
Touches(op) ==
    CASE op \in {"createProjects", "updateProject"} -> <<"projects">>
      [] op = "deleteProject" -> <<"projects", "scores">>
      [] op \in {"createJudge", "updateJudge"} -> <<"judges">>
      [] op = "deleteJudge" -> <<"judges", "scores">>
      [] op \in {"createCriterion", "updateCriterion", "deleteCriterion"}
            -> <<"criteria">>
      [] op \in {"createOrUpdateScore", "deleteScore"} -> <<"scores">>

\* The keys of an object under which there is no array.
Unusable(db) == db.missing \cup db.garbled

\* The statement (from 1) at which the operation throws a TypeError, or 0.
ThrowsAt(db, op) ==
    IF \E i \in 1..Len(Touches(op)) : Touches(op)[i] \in Unusable(db)
    THEN CHOOSE i \in 1..Len(Touches(op)) :
            /\ Touches(op)[i] \in Unusable(db)
            /\ \A k \in 1..(i - 1) : Touches(op)[k] \notin Unusable(db)
    ELSE 0

\* The object when the operation has thrown at statement i: the assignments
\* of the statements before it are made.
Thrown(db, post, op, i) ==
    IF i = 2 THEN [db EXCEPT ![Touches(op)[1]] = post[Touches(op)[1]]] ELSE db

----------------------------------------------------------------------------
(* The subscriber: useDataRefresh                                           *)

\* A getAllData() not yet resolved: the object readDB returned (db is what
\* the object holds now), whether it is the object dbCache holds, and when
\* the call was made.
Pending(db, cached, at) == [db |-> db, cached |-> cached, at |-> at]

\* The objects pending reads hold, after dbCache's object was mutated in
\* place (to db) or was replaced by a new object (fresh).
Track(pending, fresh, db) ==
    LET Follow(p) ==
            IF ~p.cached THEN p
            ELSE IF fresh THEN [p EXCEPT !.cached = FALSE]
            ELSE [p EXCEPT !.db = db]
    IN  [i \in 1..Len(pending) |-> Follow(pending[i])]

\* (mutant of refreshAllData: the flag is not tested)
refreshAllData_NoGuard(st, sub) ==
    LET r == readDB(st)
    IN  [st |-> r.st,
         sub |-> [rip |-> TRUE,
                  data |-> Append(Track(sub.data, r.fresh, r.db),
                                  Pending(r.db, r.cached, now))],
         started |-> TRUE]

\* refreshAllData up to its await: the listener of 'platform-data-refresh'.
\* sub is [rip, data]: the flag and the pending reads.
refreshAllData(st, sub) ==
    IF sub.rip
    THEN [st |-> st, sub |-> sub, started |-> FALSE]
    ELSE LET r == readDB(st)
         IN  [st |-> r.st,
              sub |-> [rip |-> TRUE,
                       data |-> Append(Track(sub.data, r.fresh, r.db),
                                       Pending(r.db, r.cached, now))],
              started |-> TRUE]

Sub == [rip |-> refreshInProgress, data |-> data]

\* `data.projects` throws a TypeError when getAllData() resolved to null.
RefreshThrows(db) == IsNull(db)

\* (mutant of the end of refreshAllData: the flag is cleared as the last
\* statement of the try block, with no finally)
refreshEnded_NoFinally(threw) == threw

\* refreshInProgress.current when refreshAllData is left: the finally block
\* clears it, whether the try block threw or not.
refreshEnded(threw) == FALSE

----------------------------------------------------------------------------
(* Backend/server.js and the PostgreSQL schema it runs on                   *)

MaxRequests == 2    \* requests the server receives in one behaviour
MaxInflight == 2    \* POST /api/evaluations handlers awaiting at one time

\* `limit = 50`: the leaderboard's LIMIT when the query string has none.
DefaultLimit == 50

\* A string field the request body does not have.  `!field` holds of it and
\* of the empty string.
Absent == "<absent>"
Falsy(x) == x \in {"", Absent}

\* Row ids stand for the UUIDs uuid_generate_v4() draws: the n-th row of a
\* table has id n.  NoId is a project_id the body does not have, GhostRow a
\* UUID no row has.
NoId == 0
GhostRow == 99

\* CHECK (track IN (...)) of table projects
SchemaTracks == Tracks \cup {"DLT Operations & ESG", "Gaming & Metaverse"}

\* CHECK (contact_email ~* '^[A-Za-z0-9._%+-]+@[A-Za-z0-9.-]+\.[A-Za-z]{2,}$'),
\* on the addresses the model's callers use.
Emails == {"alpha@example.com", "beta@example.com", "not-an-email"}
valid_email(e) == e \in {"alpha@example.com", "beta@example.com"}

\* DECIMAL(3,2): three digits, two of them after the point.  Numbers are kept
\* in hundredths where the schema keeps two decimals.
Decimal32(hundredths) == hundredths > -1000 /\ hundredths < 1000

\* ROUND of sum / n to the column's scale, half away from zero (sum >= 0).
RoundDiv(sum, n) == (2 * sum + n) \div (2 * n)

ScoreNames == {"innovation_score", "technical_score", "impact_score",
               "presentation_score", "hedera_integration_score"}

\* The five scores of a request body.
Sheet(i, t, m, p, h) ==
    [innovation_score |-> i, technical_score |-> t, impact_score |-> m,
     presentation_score |-> p, hedera_integration_score |-> h]

AllScores(v) == Sheet(v, v, v, v, v)

\* `scores.some(score => score < 1 || score > 10)`
OutOfRange(sheet) ==
    \E c \in ScoreNames : JsLt(sheet[c], Num(1)) \/ JsGt(sheet[c], Num(10))

\* The columns' NOT NULL, DECIMAL(3,2) and CHECK (score >= 1 AND score <= 10).
ScoreColumnsAccept(sheet) ==
    \A c \in ScoreNames :
        /\ sheet[c].kind = "number"
        /\ Decimal32(100 * sheet[c].n)
        /\ sheet[c].n >= 1 /\ sheet[c].n <= 10

\* (innovation + technical + impact + presentation + hedera_integration) / 5,
\* in hundredths.
overall_score(sheet) ==
    20 * (sheet.innovation_score.n + sheet.technical_score.n
          + sheet.impact_score.n + sheet.presentation_score.n
          + sheet.hedera_integration_score.n)

ProjectRow(id, project_name, team_name, track, contact_email, avg, cnt) ==
    [id |-> id, project_name |-> project_name, team_name |-> team_name,
     track |-> track, contact_email |-> contact_email,
     average_score |-> avg, evaluation_count |-> cnt]

EvaluationRow(id, project_id, evaluator_email, sheet) ==
    [id |-> id, project_id |-> project_id, evaluator_email |-> evaluator_email,
     scores |-> sheet, overall_score |-> overall_score(sheet)]

Pg(projects, evaluations) == [projects |-> projects, evaluations |-> evaluations]

EmptyPg == Pg(<<>>, <<>>)

\* SELECT ... FROM evaluations WHERE project_id = $1
EvaluationsOf(db, project_id) ==
    LET Of(e) == e.project_id = project_id
    IN  SelectSeq(db.evaluations, Of)

\* SUM(overall_score) and COUNT(*) of a project's evaluations
SumOverall(db, project_id) ==
    LET es == EvaluationsOf(db, project_id)
        f[i \in 0..Len(es)] ==
            IF i = 0 THEN 0 ELSE f[i - 1] + es[i].overall_score
    IN  f[Len(es)]

CountEvaluations(db, project_id) == Len(EvaluationsOf(db, project_id))

\* AVG(overall_score) stored into a DECIMAL(3,2) column; COALESCE(.., 0).
AvgOverall(db, project_id) ==
    IF CountEvaluations(db, project_id) = 0 THEN 0
    ELSE RoundDiv(SumOverall(db, project_id), CountEvaluations(db, project_id))

\* UPDATE projects SET average_score = .., evaluation_count = .. WHERE id = ..
SetAggregates(db, project_id, avg, cnt) ==
    [db EXCEPT !.projects =
        [i \in 1..Len(@) |->
            IF @[i].id = project_id
            THEN [@[i] EXCEPT !.average_score = avg, !.evaluation_count = cnt]
            ELSE @[i]]]

\* The trigger update_project_scores_on_evaluation, run by the INSERT.
update_project_scores(db, project_id) ==
    SetAggregates(db, project_id, AvgOverall(db, project_id),
                  CountEvaluations(db, project_id))

\* INSERT INTO projects ... RETURNING *: the row, or <<>> when a constraint
\* of the table rejects it.
InsertProject(db, body) ==
    IF body.track \in SchemaTracks /\ valid_email(body.contact_email)
    THEN <<ProjectRow(Len(db.projects) + 1, body.project_name, body.team_name,
                      body.track, body.contact_email, 0, 0)>>
    ELSE <<>>

\* INSERT INTO evaluations ... RETURNING *: the row, or <<>> when the foreign
\* key, a column or unique_evaluator_project rejects it.
InsertEvaluation(db, body) ==
    IF /\ body.project_id \in Ids(db.projects)
       /\ ScoreColumnsAccept(body.scores)
       /\ \A i \in 1..Len(db.evaluations) :
            ~(/\ db.evaluations[i].project_id = body.project_id
              /\ db.evaluations[i].evaluator_email = body.evaluator_email)
    THEN <<EvaluationRow(Len(db.evaluations) + 1, body.project_id,
                         body.evaluator_email, body.scores)>>
    ELSE <<>>

\* The seed data of the schema, and a database that earlier requests have
\* filled: a fifth project on the first one's track, two evaluations of the
\* first project, one of the fifth and one of the third.
SEED_PG ==
    Pg(<<ProjectRow(1, "DeFi Lending Platform", "Alpha Team", TrackA,
                    "alpha@example.com", 0, 0),
         ProjectRow(2, "Supply Chain Tracker", "Beta Builders",
                    "DLT Operations & ESG", "beta@example.com", 0, 0),
         ProjectRow(3, "AI-Powered Healthcare", "Gamma Health", TrackB,
                    "gamma@example.com", 0, 0),
         ProjectRow(4, "MetaAfrica Game", "Delta Gaming",
                    "Gaming & Metaverse", "delta@example.com", 0, 0)>>,
       <<>>)

\* A project and an evaluation as the two INSERTs leave them.
WithProject(db, row) == [db EXCEPT !.projects = Append(@, row)]

WithEvaluation(db, row) ==
    update_project_scores([db EXCEPT !.evaluations = Append(@, row)],
                          row.project_id)

JUDGED_PG ==
    WithEvaluation(
    WithEvaluation(
    WithEvaluation(
    WithEvaluation(
        WithProject(SEED_PG,
            ProjectRow(5, "Solar Grid", "Epsilon", TrackA,
                       "alpha@example.com", 0, 0)),
        EvaluationRow(1, 1, "alpha@example.com", AllScores(Num(8)))),
        EvaluationRow(2, 1, "beta@example.com", Sheet(Num(9), Num(7), Num(8), Num(8), Num(8)))),
        EvaluationRow(3, 5, "alpha@example.com", AllScores(Num(8)))),
        EvaluationRow(4, 3, "alpha@example.com", AllScores(Num(6))))

\* GET /api/analytics/leaderboard.  A row of the result: the project with
\* COUNT(e.id) and, for AVG(e.overall_score), the sum it divides.
LeaderboardRow(p, sum, cnt) ==
    [id |-> p.id, track |-> p.track, sum |-> sum, evaluation_count |-> cnt]

\* FROM projects p LEFT JOIN evaluations e ... [AND p.track = $1]
\* GROUP BY p.id HAVING COUNT(e.id) > 0
LeaderboardRows(db, track) ==
    {LeaderboardRow(p, SumOverall(db, p.id), CountEvaluations(db, p.id)) :
        p \in {q \in Range(db.projects) :
                /\ track = Absent \/ q.track = track
                /\ CountEvaluations(db, q.id) > 0}}

\* (mutants of the query: no HAVING; ORDER BY without the second key)
LeaderboardRows_NoHaving(db, track) ==
    {LeaderboardRow(p, SumOverall(db, p.id), CountEvaluations(db, p.id)) :
        p \in {q \in Range(db.projects) : track = Absent \/ q.track = track}}

OrderBy_AverageOnly(a, b) ==
    a.sum * b.evaluation_count >= b.sum * a.evaluation_count

\* ORDER BY average_score DESC, evaluation_count DESC lets a come before b.
OrderBy(a, b) ==
    \/ a.sum * b.evaluation_count > b.sum * a.evaluation_count
    \/ /\ a.sum * b.evaluation_count = b.sum * a.evaluation_count
       /\ a.evaluation_count >= b.evaluation_count

\* The orders the database may return the rows in: rows that tie on both
\* keys come in any order.
Orderings(rows) ==
    {s \in [1..Cardinality(rows) -> rows] :
        /\ \A r \in rows : \E i \in 1..Cardinality(rows) : s[i] = r
        /\ \A i, k \in 1..Cardinality(rows) : i < k => OrderBy(s[i], s[k])}

\* LIMIT $n
Limit(s, n) == IF Len(s) <= n THEN s ELSE SubSeq(s, 1, n)

leaderboard(db, track, limit) ==
    {Limit(s, IF limit = <<>> THEN DefaultLimit ELSE limit[1]) :
        s \in Orderings(LeaderboardRows(db, track))}

\* The view project_rankings: the projects WHERE evaluation_count > 0, each
\* with RANK() OVER (ORDER BY average_score DESC, evaluation_count DESC),
\* overall and PARTITION BY track.
RankedAbove(q, p) ==
    \/ q.average_score > p.average_score
    \/ /\ q.average_score = p.average_score
       /\ q.evaluation_count > p.evaluation_count

project_rankings(db) ==
    LET listed == {p \in Range(db.projects) : p.evaluation_count > 0}
    IN  {[id |-> p.id, track |-> p.track,
          average_score |-> p.average_score,
          evaluation_count |-> p.evaluation_count,
          rank_in_track |->
              1 + Cardinality({q \in listed :
                                q.track = p.track /\ RankedAbove(q, p)}),
          overall_rank |->
              1 + Cardinality({q \in listed : RankedAbove(q, p)})] :
         p \in listed}

\* What the server answered: the route, the request, the status, the rows of
\* `data` (none with an error) and the database before the request.
Response(route, request, status, rows, before) ==
    [route |-> route, request |-> request, status |-> status, rows |-> rows,
     before |-> before]

NoResponse == Response("none", <<>>, 0, <<>>, EmptyPg)

\* A handler of POST /api/evaluations at an await of updateProjectAverageScore:
\* before the SELECT ("select") or, holding its result, before the UPDATE.
Handler(request, row, before, pc, avg_score, eval_count) ==
    [request |-> request, row |-> row, before |-> before, pc |-> pc,
     avg_score |-> avg_score, eval_count |-> eval_count]

----------------------------------------------------------------------------
(* Actions *)

\* The record of an operation: its name and argument, the object readDB gave
\* it before and after the mutation, whether setItem succeeded, the error the
\* returned promise rejects with ("none": it resolves), whether the event was
\* dispatched and, if so, the storage at that moment and what a read made at
\* that moment returns, whether a refresh was in progress when the operation
\* began and whether the dispatch started one.
NoOp == [op |-> "none", arg |-> <<>>, pre |-> EmptyDB, post |-> EmptyDB,
         wrote |-> FALSE, error |-> "none", dispatched |-> FALSE,
         stored |-> <<>>, observed |-> <<>>, started |-> FALSE, busy |-> FALSE]

\* One repository operation: readDB, the mutation of the object it returned
\* (mutated is the object when every statement has run, post the object the
\* operation leaves), writeDB when the operation reaches it, and the listener
\* run by the dispatch.
Operation(op, arg, mutated, writes) ==
    \E r \in {readDB(Here)} :
    \E at \in {ThrowsAt(r.db, op)} :
    \E post \in {IF at = 0 THEN mutated ELSE Thrown(r.db, mutated, op, at)} :
    \* the mutation is made in place: dbCache's object shows it at once
    \E st1 \in {IF r.cached THEN Storage(r.st.ls, <<post>>, r.st.t) ELSE r.st} :
    \E w \in {IF writes /\ at = 0 THEN writeDB(st1, post)
               ELSE WriteResult(st1, FALSE, FALSE, FALSE)} :
    \* writeDB makes db the object of dbCache
    \E sub1 \in {[rip |-> refreshInProgress,
                   data |-> Track(Track(data, r.fresh, post),
                                  w.ok /\ ~r.cached, post)]} :
    \E l \in {IF w.dispatched THEN refreshAllData(w.st, sub1)
               ELSE [st |-> w.st, sub |-> sub1, started |-> FALSE]} :
        /\ nOps' = nOps + 1
        /\ localStorage' = l.st.ls
        /\ dbCache' = l.st.c
        /\ cacheTimestamp' = l.st.t
        /\ refreshInProgress' = l.sub.rip
        /\ data' = l.sub.data
        /\ last' = [op |-> op, arg |-> arg, pre |-> r.db, post |-> post,
                    wrote |-> w.ok,
                    error |-> IF at # 0 THEN "TypeError"
                              ELSE IF w.threw THEN "QuotaExceededError"
                              ELSE "none",
                    dispatched |-> w.dispatched,
                    stored |-> IF w.dispatched THEN <<w.st>> ELSE <<>>,
                    observed |-> IF w.dispatched THEN <<readDB(w.st).db>> ELSE <<>>,
                    started |-> l.started,
                    busy |-> refreshInProgress]
        /\ UNCHANGED <<impl, storageFull, now, ui>>
        /\ UNCHANGED serverVars

Db == readDB(Here).db

\* The values callers pass.  A wide set for the repository's own contract, a
\* narrow one where the subscriber's interleavings are explored.
Inputs(tracks, trackSets, weights, ratings, batch, ghosts) ==
    [tracks |-> tracks, trackSets |-> trackSets, weights |-> weights,
     ratings |-> ratings, batch |-> batch, ghosts |-> ghosts]

RatingInputs == {Num(-1), Num(0), Num(1), Num(10), Num(11), NaN}

\* A track that is none of the enumeration's.
NotATrack == "Not a track"

Wide == Inputs(Tracks \cup {NotATrack}, SUBSET Tracks \ {{}}, {1, 2},
               RatingInputs, MaxBatch, TRUE)
Narrow == Inputs({TrackB}, {{TrackB}}, {2}, {Num(10)}, 1, FALSE)

\* The operations one behaviour of the model may still run.
Budget == nOps < MaxOps

\* An id no record has, when the caller may pass one.
Ghost(I, id) == IF I.ghosts THEN {id} ELSE {}

\* The batches a caller imports: each project with the id the caller gave it.
Batches(I) == UNION {[1..n -> I.tracks] : n \in 1..I.batch}
NewProjects(b) == [i \in 1..Len(b) |-> Project(Id("p", now, i - 1), b[i])]

createProjects(I) ==
    /\ Budget
    /\ \E db \in {Db} : \E b \in Batches(I) : \E newProjects \in {NewProjects(b)} :
           \E post \in {createProjectsDb(db, newProjects)} :
               Operation("createProjects", newProjects, post, TRUE)

updateProject(I) ==
    /\ Budget
    /\ \E db \in {Db} :
       \E id \in Ids(db.projects) \cup Ghost(I, GhostP), track \in I.tracks :
           \E post \in {updateProjectDb(db, Project(id, track))} :
               Operation("updateProject", Project(id, track), post,
                         Found(db.projects, id))

deleteProject(I) ==
    /\ Budget
    /\ \E db \in {Db} : \E id \in Ids(db.projects) \cup Ghost(I, GhostP) :
           \E post \in {deleteProjectDb(db, id)} :
               Operation("deleteProject", id, post, TRUE)

createJudge(I) ==
    /\ Budget
    /\ \E db \in {Db} : \E tracks \in I.trackSets :
           \E post \in {createJudgeDb(db, [tracks |-> tracks])} :
               Operation("createJudge", [tracks |-> tracks], post, TRUE)

updateJudge(I) ==
    /\ Budget
    /\ \E db \in {Db} :
       \E id \in Ids(db.judges) \cup Ghost(I, GhostJ), tracks \in I.trackSets :
           \E post \in {updateJudgeDb(db, Judge(id, tracks))} :
               Operation("updateJudge", Judge(id, tracks), post,
                         Found(db.judges, id))

deleteJudge(I) ==
    /\ Budget
    /\ \E db \in {Db} : \E id \in Ids(db.judges) \cup Ghost(I, GhostJ) :
           \E post \in {deleteJudgeDb(db, id)} :
               Operation("deleteJudge", id, post, TRUE)

createCriterion(I) ==
    /\ Budget
    /\ \E db \in {Db} : \E weight \in I.weights :
           \E post \in {createCriterionDb(db, [weight |-> weight])} :
               Operation("createCriterion", [weight |-> weight], post, TRUE)

updateCriterion(I) ==
    /\ Budget
    /\ \E db \in {Db} :
       \E id \in Ids(db.criteria) \cup Ghost(I, GhostC), weight \in I.weights :
           \E post \in {updateCriterionDb(db, Criterion(id, weight))} :
               Operation("updateCriterion", Criterion(id, weight), post,
                         Found(db.criteria, id))

deleteCriterion(I) ==
    /\ Budget
    /\ \E db \in {Db} : \E id \in Ids(db.criteria) \cup Ghost(I, GhostC) :
           \E post \in {deleteCriterionDb(db, id)} :
               Operation("deleteCriterion", id, post, TRUE)

createOrUpdateScore(I) ==
    /\ Budget
    /\ \E db \in {Db} :
       \E p \in Ids(db.projects) \cup Ghost(I, GhostP),
          j \in Ids(db.judges) \cup Ghost(I, GhostJ),
          c \in Ids(db.criteria),
          r \in I.ratings :
           \E score \in {Score(p, j, c, r)} :
           \E post \in {createOrUpdateScoreDb(db, score)} :
               Operation("createOrUpdateScore", score, post, TRUE)

deleteScore(I) ==
    /\ Budget
    /\ \E db \in {Db} :
       \E id \in Ids(db.scores) \cup Ghost(I, ScoreId(GhostP, GhostJ, GhostC)) :
           \E post \in {deleteScoreDb(db, id)} :
               Operation("deleteScore", id, post, TRUE)

\* triggerDataRefresh(): the event dispatched by a caller.
triggerDataRefresh ==
    \E l \in {refreshAllData(Here, Sub)} :
        /\ localStorage' = l.st.ls
        /\ dbCache' = l.st.c
        /\ cacheTimestamp' = l.st.t
        /\ refreshInProgress' = l.sub.rip
        /\ data' = l.sub.data
        /\ UNCHANGED <<impl, storageFull, now, ui, last, nOps>>
        /\ UNCHANGED serverVars

\* The rest of refreshAllData: getAllData() resolves SIMULATED_DELAY after the
\* call, the callbacks take the four arrays of the object unless reading them
\* throws, the flag is released.
refreshDone ==
    /\ data # <<>>
    /\ now - Head(data).at >= SIMULATED_DELAY
    /\ ui' = IF RefreshThrows(Head(data).db) THEN ui ELSE Head(data).db
    /\ refreshInProgress' = refreshEnded(RefreshThrows(Head(data).db))
    /\ data' = Tail(data)
    /\ UNCHANGED <<impl, storageFull, localStorage, dbCache, cacheTimestamp,
                   now, last, nOps>>
    /\ UNCHANGED serverVars

Tick ==
    /\ now + TickMs <= MaxTicks * TickMs
    /\ now' = now + TickMs
    /\ UNCHANGED <<impl, storageFull, localStorage, dbCache, cacheTimestamp,
                   refreshInProgress, data, ui, last, nOps>>
    /\ UNCHANGED serverVars

----------------------------------------------------------------------------
(* The server's handlers.  pool.query may reject for reasons of its own    *)
(* (fails): every handler answers 500 from its catch, and                   *)
(* updateProjectAverageScore swallows the error.                            *)

Respond(route, request, status, rows) ==
    /\ http' = Response(route, request, status, rows, pg)
    /\ nReq' = nReq + 1

ProjectBody(project_name, team_name, track, contact_email) ==
    [project_name |-> project_name, team_name |-> team_name, track |-> track,
     contact_email |-> contact_email]

\* POST /api/projects
postProject ==
    /\ nReq < MaxRequests
    /\ \E project_name \in {"", "Solar Grid"},
          track \in {TrackA, NotATrack, Absent},
          contact_email \in {"alpha@example.com", "not-an-email"},
          fails \in BOOLEAN :
       \E body \in {ProjectBody(project_name, "Epsilon", track, contact_email)} :
       \E row \in {InsertProject(pg, body)} :
           /\ IF \/ Falsy(body.project_name) \/ Falsy(body.team_name)
                 \/ Falsy(body.track) \/ Falsy(body.contact_email)
              THEN Respond("POST /api/projects", body, 400, <<>>)
                   /\ pg' = pg
              ELSE IF fails \/ row = <<>>
              THEN Respond("POST /api/projects", body, 500, <<>>)
                   /\ pg' = pg
              ELSE Respond("POST /api/projects", body, 201, row)
                   /\ pg' = WithProject(pg, row[1])
           /\ UNCHANGED inflight
           /\ UNCHANGED storeVars

\* PUT /api/projects/:id.  The body holds no field of allowedFields ("none")
\* or a track.
putProject ==
    /\ nReq < MaxRequests
    /\ \E id \in Ids(pg.projects) \cup {GhostRow},
          track \in {"none", TrackB, NotATrack},
          fails \in BOOLEAN :
       \E request \in {[id |-> id, track |-> track]} :
           /\ IF track = "none"
              THEN Respond("PUT /api/projects/:id", request, 400, <<>>)
                   /\ pg' = pg
              ELSE IF fails \/ (id \in Ids(pg.projects) /\ track \notin SchemaTracks)
              THEN Respond("PUT /api/projects/:id", request, 500, <<>>)
                   /\ pg' = pg
              ELSE IF id \notin Ids(pg.projects)
              THEN Respond("PUT /api/projects/:id", request, 404, <<>>)
                   /\ pg' = pg
              ELSE /\ pg' = [pg EXCEPT !.projects =
                            [i \in 1..Len(@) |->
                                IF @[i].id = id
                                THEN [@[i] EXCEPT !.track = track]
                                ELSE @[i]]]
                   /\ Respond("PUT /api/projects/:id", request, 200,
                              <<[First(pg.projects, id) EXCEPT !.track = track]>>)
           /\ UNCHANGED inflight
           /\ UNCHANGED storeVars

EvaluationBody(project_id, evaluator_name, evaluator_email, scores) ==
    [project_id |-> project_id, evaluator_name |-> evaluator_name,
     evaluator_email |-> evaluator_email, scores |-> scores]

\* The score sheets callers send: in range, at the bounds, out of range, with
\* a null, and with only innovation_score.
SheetInputs ==
    {AllScores(Num(8)), Sheet(Num(8), Num(6), Num(7), Num(7), Num(7)),
     AllScores(Num(1)), AllScores(Num(10)),
     AllScores(Num(0)), AllScores(Num(11)),
     Sheet(Num(8), JsNull, Num(8), Num(8), Num(8)),
     Sheet(Num(10), Undefined, Undefined, Undefined, Undefined)}

\* POST /api/evaluations up to `await updateProjectAverageScore(project_id)`:
\* the validation and the INSERT, whose trigger sets the project's aggregates.
postEvaluation ==
    /\ nReq < MaxRequests
    /\ Cardinality(inflight) < MaxInflight
    /\ \E project_id \in Ids(pg.projects) \cup {GhostRow, NoId},
          evaluator_email \in {"alpha@example.com", "beta@example.com", Absent},
          scores \in SheetInputs,
          fails \in BOOLEAN :
       \E body \in {EvaluationBody(project_id, "Sarah", evaluator_email, scores)} :
       \E row \in {InsertEvaluation(pg, body)} :
           /\ IF \/ body.project_id = NoId \/ Falsy(body.evaluator_name)
                 \/ Falsy(body.evaluator_email)
              THEN Respond("POST /api/evaluations", body, 400, <<>>)
                   /\ UNCHANGED <<pg, inflight>>
              ELSE IF OutOfRange(body.scores)
              THEN Respond("POST /api/evaluations", body, 400, <<>>)
                   /\ UNCHANGED <<pg, inflight>>
              ELSE IF fails \/ row = <<>>
              THEN Respond("POST /api/evaluations", body, 500, <<>>)
                   /\ UNCHANGED <<pg, inflight>>
              ELSE /\ pg' = WithEvaluation(pg, row[1])
                   /\ inflight' = inflight \cup
                        {Handler(body, row[1], pg, "select", 0, 0)}
                   /\ nReq' = nReq + 1
                   /\ UNCHANGED http
           /\ UNCHANGED storeVars

\* updateProjectAverageScore: SELECT AVG(overall_score), COUNT(*).  When the
\* query rejects, the catch logs and the handler answers 201.
selectAverage ==
    \E h \in inflight, fails \in BOOLEAN :
        /\ h.pc = "select"
        /\ IF fails
           THEN /\ inflight' = inflight \ {h}
                /\ http' = Response("POST /api/evaluations", h.request, 201,
                                    <<h.row>>, h.before)
           ELSE /\ inflight' = (inflight \ {h}) \cup
                        {[h EXCEPT !.pc = "update",
                                   !.avg_score = AvgOverall(pg, h.request.project_id),
                                   !.eval_count = CountEvaluations(pg, h.request.project_id)]}
                /\ UNCHANGED http
        /\ UNCHANGED <<pg, nReq>>
        /\ UNCHANGED storeVars

\* updateProjectAverageScore: UPDATE projects SET average_score = $1,
\* evaluation_count = $2 WHERE id = $3; then the handler answers 201.
updateAverage ==
    \E h \in inflight, fails \in BOOLEAN :
        /\ h.pc = "update"
        /\ pg' = IF fails THEN pg
                 ELSE SetAggregates(pg, h.request.project_id, h.avg_score,
                                    h.eval_count)
        /\ inflight' = inflight \ {h}
        /\ http' = Response("POST /api/evaluations", h.request, 201,
                            <<h.row>>, h.before)
        /\ UNCHANGED nReq
        /\ UNCHANGED storeVars

\* GET /api/analytics/leaderboard?track=..&limit=.. (limit: <<>> or <<n>>)
getLeaderboard ==
    /\ nReq < MaxRequests
    /\ \E track \in {Absent, TrackA, TrackB}, limit \in {<<>>, <<1>>},
          fails \in BOOLEAN :
       \E request \in {[track |-> track, limit |-> limit]} :
           /\ IF fails
              THEN Respond("GET /api/analytics/leaderboard", request, 500, <<>>)
              ELSE \E rows \in leaderboard(pg, track, limit) :
                       Respond("GET /api/analytics/leaderboard", request, 200, rows)
           /\ UNCHANGED <<pg, inflight>>
           /\ UNCHANGED storeVars

InitStore ==
    /\ storageFull = FALSE
    /\ dbCache = <<>>
    /\ cacheTimestamp = 0
    /\ now = 0
    /\ refreshInProgress = FALSE
    /\ data = <<>>
    /\ ui = EmptyDB
    /\ last = NoOp
    /\ nOps = 0

InitIdleServer ==
    /\ pg = EmptyPg
    /\ inflight = {}
    /\ http = NoResponse
    /\ nReq = 0

Init ==
    /\ impl \in {"ts", "p2"}
    /\ localStorage \in {<<>>, <<stringify(MOCK_DB)>>}
    /\ InitStore
    /\ InitIdleServer

\* The repository under every input a caller can pass.
Next ==
    \/ createProjects(Wide)
    \/ updateProject(Wide)
    \/ deleteProject(Wide)
    \/ createJudge(Wide)
    \/ updateJudge(Wide)
    \/ deleteJudge(Wide)
    \/ createCriterion(Wide)
    \/ updateCriterion(Wide)
    \/ deleteCriterion(Wide)
    \/ createOrUpdateScore(Wide)
    \/ deleteScore(Wide)
    \/ Tick

Spec == Init /\ [][Next]_vars

\* The repository and its subscriber.
NextRefresh ==
    \/ createProjects(Narrow)
    \/ updateProject(Narrow)
    \/ deleteProject(Narrow)
    \/ createJudge(Narrow)
    \/ updateJudge(Narrow)
    \/ deleteJudge(Narrow)
    \/ createCriterion(Narrow)
    \/ updateCriterion(Narrow)
    \/ deleteCriterion(Narrow)
    \/ createOrUpdateScore(Narrow)
    \/ deleteScore(Narrow)
    \/ triggerDataRefresh
    \/ refreshDone
    \/ Tick

SpecRefresh == Init /\ [][NextRefresh]_vars

\* What an earlier version of the application, or another program, left under
\* DB_KEY: an object without one of the keys, an object with a string under
\* one of the keys, a text that is no JSON, the text `null`.
STALE_DB ==
    DBState(<<Project(GhostP, TrackB)>>, <<Judge(GhostJ, {TrackB})>>,
            <<Criterion(GhostC, 2)>>,
            <<Score(GhostP, GhostJ, GhostC, Num(5))>>)

Lacking(db, key) == [db EXCEPT ![key] = <<>>, !.missing = {key}]
Garbling(db, key) == [db EXCEPT ![key] = <<>>, !.garbled = {key}]

Keys == {"projects", "judges", "criteria", "scores"}

InitBoot ==
    /\ impl \in {"ts", "p2"}
    /\ localStorage \in
            {<<>>, <<Garbage>>, <<NullDB>>, <<stringify(STALE_DB)>>}
            \cup {<<Lacking(STALE_DB, k)>> : k \in Keys}
            \cup {<<Garbling(STALE_DB, k)>> : k \in Keys}
    /\ InitStore
    /\ InitIdleServer

\* The repository and its subscriber on whatever localStorage holds at load.
SpecBoot == InitBoot /\ [][NextRefresh]_vars

\* The same, where time passes and the timer of every pending getAllData()
\* fires: setTimeout's callback and the continuation of the await run once
\* they are due.
SpecBootLive ==
    SpecBoot /\ WF_vars(Tick) /\ WF_vars(refreshDone)

\* The quota of localStorage is used up: every setItem throws.
InitFault ==
    /\ impl \in {"ts", "p2"}
    /\ localStorage \in {<<>>, <<stringify(MOCK_DB)>>}
    /\ storageFull = TRUE
    /\ dbCache = <<>>
    /\ cacheTimestamp = 0
    /\ now = 0
    /\ refreshInProgress = FALSE
    /\ data = <<>>
    /\ ui = EmptyDB
    /\ last = NoOp
    /\ nOps = 0
    /\ InitIdleServer

\* The repository and its subscriber when no write reaches localStorage.
SpecFault == InitFault /\ [][NextRefresh]_vars

\* The server, on an empty database, on the seed data, and on a database
\* earlier requests have filled.
InitServer ==
    /\ impl = "ts"
    /\ localStorage = <<>>
    /\ InitStore
    /\ pg \in {EmptyPg, SEED_PG, JUDGED_PG}
    /\ inflight = {}
    /\ http = NoResponse
    /\ nReq = 0

NextServer ==
    \/ postProject
    \/ putProject
    \/ postEvaluation
    \/ selectAverage
    \/ updateAverage
    \/ getLeaderboard

SpecServer == InitServer /\ [][NextServer]_vars

----------------------------------------------------------------------------
(* Properties *)

Mutations == {"createProjects", "updateProject", "deleteProject",
              "createJudge", "updateJudge", "deleteJudge",
              "createCriterion", "updateCriterion", "deleteCriterion",
              "createOrUpdateScore", "deleteScore"}

\* The snapshot the item in localStorage holds.
Persisted == IF localStorage = <<>> THEN EmptyDB ELSE parse(localStorage[1])

\* Two snapshots that JSON does not tell apart.
SameJson(a, b) == stringify(a) = stringify(b)

ScoresOf(db) == Range(db.scores)
Triple(s) == <<s.projectId, s.judgeId, s.criterionId>>

\* The judge and the project of a score are stored, and the judge's tracks do
\* not hold the project's track.
Unauthorized(db, score) ==
    /\ score.projectId \in Ids(db.projects)
    /\ score.judgeId \in Ids(db.judges)
    /\ First(db.projects, score.projectId).track
            \notin First(db.judges, score.judgeId).tracks

InRange(r) == r.kind = "number" /\ r.n >= 1 /\ r.n <= 10

\* C1: once deleteProject(P) has returned, no Score with projectId = P is
\* left, in what a read returns and in what localStorage holds, however many
\* Scores referenced P before.
C1_DeleteProjectCascades ==
    last.op = "deleteProject" =>
        /\ \A s \in ScoresOf(last.post) : s.projectId # last.arg
        /\ \A s \in ScoresOf(ReadView) : s.projectId # last.arg
        /\ \A s \in ScoresOf(Persisted) : s.projectId # last.arg

C1_Witness ==
    /\ last.op = "deleteProject"
    /\ Cardinality({s \in ScoresOf(last.pre) : s.projectId = last.arg}) >= 2
    /\ last.arg \in Ids(last.pre.projects)

\* C2: once deleteJudge(J) has returned, no Score with judgeId = J is left.
C2_DeleteJudgeCascades ==
    last.op = "deleteJudge" =>
        /\ \A s \in ScoresOf(last.post) : s.judgeId # last.arg
        /\ \A s \in ScoresOf(ReadView) : s.judgeId # last.arg
        /\ \A s \in ScoresOf(Persisted) : s.judgeId # last.arg

C2_Witness ==
    /\ last.op = "deleteJudge"
    /\ Cardinality({s \in ScoresOf(last.pre) : s.judgeId = last.arg}) >= 2
    /\ last.arg \in Ids(last.pre.judges)

\* C3: in every snapshot every Score's projectId is the id of a stored
\* Project and its judgeId the id of a stored Judge.
C3_ReferentialIntegrity ==
    \A s \in ScoresOf(ReadView) :
        /\ s.projectId \in Ids(ReadView.projects)
        /\ s.judgeId \in Ids(ReadView.judges)

\* C4: at most one Score per (projectId, judgeId, criterionId) in every
\* snapshot, and after createOrUpdateScore(s) the one Score of s's triple
\* holds s's rating.
C4_OneScorePerTriple ==
    /\ \A i, k \in 1..Len(ReadView.scores) :
            Triple(ReadView.scores[i]) = Triple(ReadView.scores[k]) => i = k
    /\ last.op = "createOrUpdateScore" =>
            /\ Cardinality({i \in 1..Len(last.post.scores) :
                    Triple(last.post.scores[i]) = Triple(last.arg)}) = 1
            /\ last.arg \in ScoresOf(last.post)
            /\ Cardinality({i \in 1..Len(ReadView.scores) :
                    Triple(ReadView.scores[i]) = Triple(last.arg)}) = 1
            /\ JsonScore(last.arg) \in {JsonScore(s) : s \in ScoresOf(ReadView)}

C4_Witness ==
    /\ last.op = "createOrUpdateScore"
    /\ \E s \in ScoresOf(last.pre) :
            Triple(s) = Triple(last.arg) /\ s.rating # last.arg.rating
    /\ Len(last.post.scores) = Len(last.pre.scores)

\* C5: a submission by a judge whose tracks do not hold the project's track
\* fails with UnauthorizedTrackError and leaves the scores as they were.
C5_UnauthorizedRejected ==
    (last.op = "createOrUpdateScore" /\ Unauthorized(last.pre, last.arg)) =>
        /\ last.error = "UnauthorizedTrackError"
        /\ last.post.scores = last.pre.scores

\* C6: a submission with a rating outside [1, 10] (0, 11, -1, NaN) fails with
\* InvalidRatingError and stores nothing; one with rating 1 or 10 is stored.
C6_RatingRange ==
    last.op = "createOrUpdateScore" =>
        IF InRange(last.arg.rating)
        THEN last.arg \in ScoresOf(last.post)
        ELSE /\ last.error = "InvalidRatingError"
             /\ last.post.scores = last.pre.scores

\* C7: after an operation has written, a read returns the snapshot the
\* operation left (as JSON stores it), inside the freshness window and after
\* it has lapsed.
C7_ReadReflectsWrite ==
    (last.op \in Mutations /\ last.wrote) =>
        /\ SameJson(ReadView, last.post)
        /\ Persisted = stringify(last.post)

C7_Witness ==
    /\ last.op \in Mutations /\ last.wrote
    /\ last.post # last.pre
    /\ impl = "p2"
    /\ dbCache # <<>>
    /\ now - cacheTimestamp >= CACHE_DURATION

\* C8: deleteCriterion(C) removes criterion C and nothing else: the scores,
\* those of criterion C included, the projects and the judges stay as they
\* were.
C8_DeleteCriterionFrame ==
    last.op = "deleteCriterion" =>
        /\ last.post.scores = last.pre.scores
        /\ last.post.projects = last.pre.projects
        /\ last.post.judges = last.pre.judges
        /\ last.post.criteria = Without(last.pre.criteria, last.arg)
        /\ SameJson(ReadView, last.post)

C8_Witness ==
    /\ last.op = "deleteCriterion"
    /\ last.arg \in Ids(last.pre.criteria)
    /\ \E s \in ScoresOf(ReadView) : s.criterionId = last.arg
    /\ last.arg \notin Ids(ReadView.criteria)

C10_OneRefreshAtATime ==
    /\ Len(data) <= 1
    /\ (data # <<>>) = refreshInProgress
    /\ (last.dispatched /\ last.busy) => ~last.started

C10_Witness ==
    /\ last.dispatched
    /\ last.busy
    /\ Len(data) = 1
    /\ Head(data).at < now

\* No refresh of the subscriber is awaiting getAllData.
Settled == data = <<>> /\ ~refreshInProgress

\* C11: once the mutations have stopped and every started refresh has
\* finished, the subscriber's projects, judges, criteria and scores are the
\* store's current snapshot, also when the last notification was suppressed
\* by the flag and when the cache window lapsed between the refresh's read
\* and the later write.
C11_SubscriberConverges ==
    (last.dispatched /\ Settled) => SameJson(ui, ReadView)

\* The server answered a leaderboard request with a ranking.
Ranked == http.route = "GET /api/analytics/leaderboard" /\ http.status = 200

\* The projects a ranking of the given track is about.
OnTrack(db, track) ==
    {p \in Range(db.projects) : track = Absent \/ p.track = track}

Listed(rows) == {rows[i].id : i \in 1..Len(rows)}

\* C12: in the overall ranking and in every per-track ranking a project with
\* zero evaluations never appears and a project with at least one evaluation
\* always appears, for every snapshot and every number of evaluated projects.
C12_RankingExclusion ==
    /\ Ranked =>
        \A p \in OnTrack(http.before, http.request.track) :
            (p.id \in Listed(http.rows))
                <=> (CountEvaluations(http.before, p.id) > 0)
    /\ Ranked => Listed(http.rows) \subseteq
                    {p.id : p \in OnTrack(http.before, http.request.track)}
    /\ {r.id : r \in project_rankings(pg)} =
            {p.id : p \in {q \in Range(pg.projects) :
                            CountEvaluations(pg, q.id) > 0}}

\* C13: in any ranking output, for every two listed projects a before b,
\* a's average is greater than b's, or the averages are equal and a's
\* evaluation count is greater than or equal to b's.
C13_RankingOrder ==
    /\ Ranked =>
        \A i, k \in 1..Len(http.rows) :
            i < k =>
                LET a == http.rows[i]
                    b == http.rows[k]
                IN  \/ a.sum * b.evaluation_count > b.sum * a.evaluation_count
                    \/ /\ a.sum * b.evaluation_count = b.sum * a.evaluation_count
                       /\ a.evaluation_count >= b.evaluation_count
    /\ \A a, b \in project_rankings(pg) :
            /\ a.overall_rank < b.overall_rank =>
                \/ a.average_score > b.average_score
                \/ /\ a.average_score = b.average_score
                   /\ a.evaluation_count >= b.evaluation_count
            /\ (a.track = b.track /\ a.rank_in_track < b.rank_in_track) =>
                \/ a.average_score > b.average_score
                \/ /\ a.average_score = b.average_score
                   /\ a.evaluation_count >= b.evaluation_count

C13_Witness ==
    /\ Ranked
    /\ Len(http.rows) >= 3
    /\ \E i, k \in 1..Len(http.rows) :
        /\ i < k
        /\ http.rows[i].sum * http.rows[k].evaluation_count
                = http.rows[k].sum * http.rows[i].evaluation_count
        /\ http.rows[i].evaluation_count > http.rows[k].evaluation_count
    /\ \E a, b \in project_rankings(pg) :
        /\ a.track = b.track /\ a.rank_in_track < b.rank_in_track
        /\ a.average_score = b.average_score

\* The scores a judge submitted: the fields of the body that have a value.
Submitted(sheet) == {c \in ScoreNames : sheet[c] # Undefined}

\* The mean of the submitted scores (every criterion of the server weighs
\* the same), in hundredths.
JudgeMean(sheet) ==
    LET names == Submitted(sheet)
        order == CHOOSE f \in [1..Cardinality(names) -> names] :
                    \A c \in names : \E i \in DOMAIN f : f[i] = c
        total[i \in 0..Cardinality(names)] ==
            IF i = 0 THEN 0 ELSE total[i - 1] + sheet[order[i]].n
    IN  RoundDiv(100 * total[Cardinality(names)], Cardinality(names))

\* The INSERT was rejected although the table accepts the row: the pool failed
\* for a reason of its own.
PoolFailed ==
    http.status = 500 /\ InsertEvaluation(http.before, http.request) # <<>>

\* C15: a project's average is the mean, over the judges who scored it, of
\* each judge's weighted mean over the criteria that judge submitted, and its
\* evaluation count is the number of such judges: a judge's evaluation with
\* ratings in [1, 10] for the criteria they chose to score counts with the
\* mean of those ratings.
C15_AverageOfJudgeMeans ==
    (/\ http.route = "POST /api/evaluations"
     /\ http.request.project_id \in Ids(http.before.projects)
     /\ ~Falsy(http.request.evaluator_email)
     /\ CountEvaluations(http.before, http.request.project_id) = 0
     /\ Submitted(http.request.scores) # {}
     /\ \A c \in Submitted(http.request.scores) :
            InRange(http.request.scores[c])
     /\ ~PoolFailed)
    => /\ http.status = 201
       /\ http.rows[1].overall_score = JudgeMean(http.request.scores)
       /\ \E p \in Range(pg.projects) :
            /\ p.id = http.request.project_id
            /\ p.evaluation_count >= 1
            /\ p.evaluation_count = 1 =>
                    p.average_score = JudgeMean(http.request.scores)

\* The store's snapshot as the ranking reads it: one evaluation for every
\* (project, judge) with a Score, whose overall score is the mean of the
\* judge's ratings of that project weighted by the criteria's weights (a Score
\* of a criterion that no longer exists does not count), in hundredths.
ScoresBy(db, projectId, judgeId) ==
    LET By(s) == /\ s.projectId = projectId
                 /\ s.judgeId = judgeId
                 /\ s.criterionId \in Ids(db.criteria)
    IN  SelectSeq(db.scores, By)

WeightedMean(db, ss) ==
    LET weight(s) == First(db.criteria, s.criterionId).weight
        num[i \in 0..Len(ss)] ==
            IF i = 0 THEN 0 ELSE num[i - 1] + ss[i].rating.n * weight(ss[i])
        den[i \in 0..Len(ss)] ==
            IF i = 0 THEN 0 ELSE den[i - 1] + weight(ss[i])
    IN  IF den[Len(ss)] = 0 THEN 0
        ELSE RoundDiv(100 * num[Len(ss)], den[Len(ss)])

StoreEvaluations(db) ==
    LET pairs == {<<s.projectId, s.judgeId>> : s \in Range(db.scores)}
        order == CHOOSE f \in [1..Cardinality(pairs) -> pairs] :
                    \A pr \in pairs : \E i \in DOMAIN f : f[i] = pr
    IN  [i \in 1..Cardinality(pairs) |->
            [id |-> i, project_id |-> order[i][1],
             evaluator_email |-> order[i][2],
             overall_score |->
                WeightedMean(db, ScoresBy(db, order[i][1], order[i][2]))]]

AsPg(db) == Pg(db.projects, StoreEvaluations(db))

\* The ids in the ranking of a track (Absent: the overall ranking).
RankedIds(db, track) == {r.id : r \in LeaderboardRows(AsPg(db), track)}

\* Every Score of project P is by judge J, and there is one.
OnlyJudgeOf(db, P, J) ==
    /\ P \in Ids(db.projects)
    /\ \E s \in ScoresOf(db) : s.projectId = P
    /\ \A s \in ScoresOf(db) : s.projectId = P => s.judgeId = J

\* C14: if judge J authored the only Score of project P, then after
\* deleteJudge(J) project P has no Score, is absent from the overall ranking
\* and from its track's ranking, and is still in the plain project listing.
C14_DeleteOnlyJudge ==
    last.op = "deleteJudge" =>
        \A P \in Ids(last.pre.projects) :
            OnlyJudgeOf(last.pre, P, last.arg) =>
                /\ \A s \in ScoresOf(ReadView) : s.projectId # P
                /\ P \notin RankedIds(ReadView, Absent)
                /\ P \notin RankedIds(ReadView, First(ReadView.projects, P).track)
                /\ P \in Ids(ReadView.projects)
                /\ P \in Ids(Persisted.projects)

C14_Witness ==
    /\ last.op = "deleteJudge"
    /\ last.arg \in Ids(last.pre.judges)
    /\ \E P \in Ids(last.pre.projects) :
        /\ OnlyJudgeOf(last.pre, P, last.arg)
        /\ P \in RankedIds(last.pre, Absent)
        /\ P \in RankedIds(last.pre, First(last.pre.projects, P).track)
        /\ P \in Ids(ReadView.projects)
    /\ \E Q \in RankedIds(ReadView, Absent) : Q \in Ids(ReadView.projects)

\* localStorage has no item under DB_KEY, or one that JSON.parse rejects.
Unreadable == localStorage = <<>> \/ ~Parses(localStorage[1])

\* C16: a read against a store that is empty or holds unparseable data
\* returns the snapshot {projects: [], judges: [], criteria: [], scores: []}
\* and does not throw.
C16_EmptyOnUnreadableStore ==
    Unreadable => ReadView = EmptyDB

\* The item parses to an object that lacks one of the four keys or has a
\* value that is no array under one of them.
Malformed ==
    /\ localStorage # <<>>
    /\ Parses(localStorage[1])
    /\ Unusable(parse(localStorage[1])) # {}

\* C17: when the persisted object parses but lacks, or has a malformed value
\* for, one of the four keys, a read returns a snapshot with all four
\* collections and none of the stored object's data, and later mutations
\* operate on that valid snapshot.
C17_MalformedIsCorrupted ==
    /\ Malformed =>
        /\ Unusable(ReadView) = {}
        /\ \A k \in Keys :
            Range(ReadView[k]) \cap Range(parse(localStorage[1])[k]) = {}
    /\ last.error # "TypeError"
    /\ Unusable(last.post) = {}

Updates == {"updateProject", "updateJudge", "updateCriterion"}
Deletes == {"deleteProject", "deleteJudge", "deleteCriterion", "deleteScore"}

\* The ids of the collection an update or a delete is about, before it ran.
TargetIds == Ids(last.pre[Touches(last.op)[1]])

\* C18: updateProject, updateJudge and updateCriterion called with an id that
\* no stored record of the collection has fail with NotFoundError and do not
\* report success.
C18_UpdateUnknownFails ==
    (last.op \in Updates /\ last.arg.id \notin TargetIds) =>
        last.error = "NotFoundError"

\* C19: deleteProject, deleteJudge, deleteCriterion and deleteScore called
\* with an id that no stored record has fail with NotFoundError and do not
\* return { success: true }.
C19_DeleteUnknownFails ==
    (last.op \in Deletes /\ last.arg \notin TargetIds) =>
        last.error = "NotFoundError"

\* C20: a create call whose required fields are missing or malformed (here:
\* a track outside the enumeration) fails with a validation error and leaves
\* the stored snapshot as it was: no record is added.
C20_InvalidCreateRejected ==
    (/\ last.op = "createProjects"
     /\ \E i \in 1..Len(last.arg) : last.arg[i].track \notin SchemaTracks)
    => /\ last.error = "ValidationError"
       /\ last.post = last.pre
       /\ SameJson(ReadView, last.pre)

\* No two elements of the array have the same id.
UniqueIds(s) == \A i, k \in 1..Len(s) : s[i].id = s[k].id => i = k

\* C21: after any sequence of create calls, two of them at the same clock
\* millisecond included, no two records of one collection have the same id.
C21_IdsUnique ==
    /\ UniqueIds(ReadView.projects)
    /\ UniqueIds(ReadView.judges)
    /\ UniqueIds(ReadView.criteria)

\* The snapshots the subscriber holds: what its callbacks were given, and what
\* each pending getAllData() will resolve to.
SubscriberSnapshots == {ui} \cup {data[i].db : i \in 1..Len(data)}

\* A snapshot from which the project (the judge) is gone while Scores that
\* reference it are still there.
HalfDeletedProject(db, id) ==
    id \notin Ids(db.projects) /\ \E s \in ScoresOf(db) : s.projectId = id

HalfDeletedJudge(db, id) ==
    id \notin Ids(db.judges) /\ \E s \in ScoresOf(db) : s.judgeId = id

\* C22: a cascading delete is one write: neither what localStorage holds nor
\* any snapshot the subscriber holds has the deleted record removed while
\* Scores that reference it are still present.
C22_CascadeIsOneWrite ==
    /\ (last.op = "deleteProject" /\ last.arg \in Ids(last.pre.projects)) =>
            \A db \in {Persisted} \cup SubscriberSnapshots :
                ~HalfDeletedProject(db, last.arg)
    /\ (last.op = "deleteJudge" /\ last.arg \in Ids(last.pre.judges)) =>
            \A db \in {Persisted} \cup SubscriberSnapshots :
                ~HalfDeletedJudge(db, last.arg)

C22_Witness ==
    /\ last.op = "deleteProject"
    /\ last.dispatched
    /\ last.arg \in Ids(last.pre.projects)
    /\ \E s \in ScoresOf(last.pre) : s.projectId = last.arg
    /\ Persisted = stringify(last.post)
    /\ ui = last.post
    /\ last.arg \notin Ids(ui.projects)

\* C23: after every mutating operation, one whose setItem failed included,
\* the snapshot dbCache holds is the snapshot localStorage holds, and a
\* mutation that was not persisted is not visible to a read.
C23_CacheEqualsStore ==
    last.op \in Mutations =>
        /\ dbCache # <<>> => stringify(dbCache[1]) = Persisted
        /\ ~last.wrote => SameJson(ReadView, last.pre)

\* App's judgeData for the user logged in as judge userId, on the snapshot
\* the App holds: <<>> (null) when no judge has that id, else the judge that
\* find returns with the projects and the scores the two filters keep.
judgeData(db, userId) ==
    IF userId \notin Ids(db.judges)
    THEN <<>>
    ELSE LET currentJudge == First(db.judges, userId)
             OnTracks(p) == p.track \in currentJudge.tracks
             ByJudge(s) == s.judgeId = currentJudge.id
         IN  <<[currentJudge |-> currentJudge,
                judgeProjects |-> SelectSeq(db.projects, OnTracks),
                judgeScores |-> SelectSeq(db.scores, ByJudge)]>>

\* C24: the projects offered to a judge are exactly the stored projects whose
\* track is in that judge's current track set, computed on the latest snapshot
\* after any judge or project edit.
C24_OfferedProjects ==
    \A i \in 1..Len(ReadView.judges) :
        /\ judgeData(ReadView, ReadView.judges[i].id) # <<>>
        /\ Range(judgeData(ReadView, ReadView.judges[i].id)[1].judgeProjects)
                = {p \in Range(ReadView.projects) :
                        p.track \in ReadView.judges[i].tracks}

\* C25: after any sequence of operations, updateJudge changing a judge's
\* tracks and updateProject changing a project's track included, every stored
\* Score was given by a judge whose current tracks hold the current track of
\* the scored project.
C25_ScoresStayAuthorized ==
    \A s \in ScoresOf(ReadView) : ~Unauthorized(ReadView, s)

Resolvable ==
    data # <<>> /\ Head(data).at + SIMULATED_DELAY <= MaxTicks * TickMs

\* C27: the flag is released on every path out of a refresh, whether
\* getAllData resolved or reading its result threw: it is false whenever no
\* refresh is awaiting, a notification that arrives then starts a new
\* refresh, and a flag that is set does not stay set forever.
C27_FlagReleased ==
    /\ [](data = <<>> => ~refreshInProgress)
    /\ []((last.dispatched /\ ~last.busy) => last.started)
    /\ ((refreshInProgress /\ Resolvable) ~> ~refreshInProgress)

\* A refresh that read null has ended, and the flag is clear.
C27_Witness ==
    /\ impl = "p2"
    /\ localStorage = <<NullDB>>
    /\ nOps = 0
    /\ cacheTimestamp > 0
    /\ data = <<>>
    /\ ~refreshInProgress
    /\ ui = EmptyDB

\* The scores of an array that do not belong to the project (to the judge),
\* in the array's order.
ScoresNotOf(ss, projectId) ==
    LET Keep(x) == x.projectId # projectId
    IN  SelectSeq(ss, Keep)

ScoresNotBy(ss, judgeId) ==
    LET Keep(x) == x.judgeId # judgeId
    IN  SelectSeq(ss, Keep)

\* C28: a cascading delete removes nothing else.  After deleteProject(P) every
\* other project, every judge, every criterion and every Score whose projectId
\* is not P is still stored, in the same order; after deleteJudge(J) every
\* project, every other judge, every criterion and every Score whose judgeId
\* is not J.
C28_CascadeFrame ==
    /\ last.op = "deleteProject" =>
            /\ last.post.projects = Without(last.pre.projects, last.arg)
            /\ last.post.judges = last.pre.judges
            /\ last.post.criteria = last.pre.criteria
            /\ last.post.scores = ScoresNotOf(last.pre.scores, last.arg)
            /\ SameJson(ReadView, last.post)
    /\ last.op = "deleteJudge" =>
            /\ last.post.projects = last.pre.projects
            /\ last.post.judges = Without(last.pre.judges, last.arg)
            /\ last.post.criteria = last.pre.criteria
            /\ last.post.scores = ScoresNotBy(last.pre.scores, last.arg)
            /\ SameJson(ReadView, last.post)

C28_Witness ==
    /\ last.op = "deleteProject"
    /\ last.arg \in Ids(last.pre.projects)
    /\ \E x \in ScoresOf(last.pre) : x.projectId = last.arg
    /\ \E x \in ScoresOf(ReadView) : x.projectId # last.arg
    /\ Len(ReadView.projects) >= 1
    /\ Len(ReadView.scores) < Len(last.pre.scores)

Creates == {"createProjects", "createJudge", "createCriterion"}

\* The collection a create, an update or the upsert works on.
Own(op) == Touches(op)[1]

\* C29: createProjects, updateProject, createJudge, updateJudge,
\* createCriterion, updateCriterion and createOrUpdateScore change only their
\* own collection; an update or an upsert of an existing id changes only the
\* records of that id, where they are, and leaves the collection's set of ids
\* as it was; a create leaves every existing record where it was.
C29_WriteFrame ==
    last.op \in Creates \cup Updates \cup {"createOrUpdateScore"} =>
        /\ \A k \in Keys \ {Own(last.op)} : last.post[k] = last.pre[k]
        /\ SameJson(ReadView, last.post)
        /\ Len(last.post[Own(last.op)]) >= Len(last.pre[Own(last.op)])
        /\ \A i \in 1..Len(last.pre[Own(last.op)]) :
                (\/ last.op \in Creates
                 \/ last.pre[Own(last.op)][i].id # last.arg.id)
                    => last.post[Own(last.op)][i] = last.pre[Own(last.op)][i]
        /\ (\/ last.op \in Updates
            \/ (last.op = "createOrUpdateScore"
                    /\ last.arg.id \in Ids(last.pre.scores))) =>
                /\ Len(last.post[Own(last.op)]) = Len(last.pre[Own(last.op)])
                /\ Ids(last.post[Own(last.op)]) = Ids(last.pre[Own(last.op)])
                /\ last.arg.id \in Ids(last.pre[Own(last.op)]) =>
                        last.post[Own(last.op)]
                            [findIndex(last.pre[Own(last.op)], last.arg.id)]
                                = last.arg

C29_Witness ==
    /\ last.op = "updateProject"
    /\ Len(last.pre.projects) >= 3
    /\ findIndex(last.pre.projects, last.arg.id) = 2
    /\ last.pre.projects[2] # last.arg
    /\ ReadView.projects[2] = last.arg
    /\ ReadView.projects[1] = last.pre.projects[1]
    /\ ReadView.projects[3] = last.pre.projects[3]

\* The operation that runs in this step is the call the last one was, with
\* the same argument.
SameCallAgain ==
    /\ nOps' = nOps + 1
    /\ last'.op = last.op
    /\ last'.arg = last.arg

====
